---- MODULE Spec2Model ----
(***************************************************************************)
(* Edge-matching puzzle solver (solver.py): the tile catalog, rotate_card, *)
(* edges_match, get_edge, is_valid_placement, the recursive backtracking   *)
(* search of solve_puzzle unfolded into an explicit call stack, and main.  *)
(*                                                                         *)
(* Python lists are 0-based, TLA+ tuples 1-based: card[i] of the source is *)
(* card[i + 1] here.  An edge is <<color, part>>, a card is a 4-tuple of   *)
(* edges <<top, right, bottom, left>>, None is the empty tuple.            *)
(***************************************************************************)
EXTENDS Integers, Sequences, FiniteSets, TLC

VARIABLES
    pc,          \* where the program is: "main", "call", "search", "done", "exit", "error";
                 \* for the direct calls "pure", "rotated", "rotated_twice", "edge", "matched";
                 \* for extract_solutions "parsing", "parsed"
    puzzle_type, \* main's argument, a string as a tuple of characters
    output,      \* the lines printed so far, each a tuple of characters
    cardset,     \* solve_puzzle's first argument
    grid_size,   \* solve_puzzle's second argument
    grid,        \* solve_puzzle's local grid: grid[row][col] is a card or None
    used_cards,  \* the one set object handed down the recursion
    stack,       \* the active calls of backtrack, outermost first
    solutions,   \* solve_puzzle's local list of collected solutions
    choices,     \* history: for each collected solution, the (card_idx, rotation) the
                 \* calls of backtrack held, outermost first, when it was appended
    returned,    \* the lists returned by the calls of solve_puzzle completed so far
    caller,      \* who called solve_puzzle: "main" or "harness"
    steps,       \* the number of search steps taken
    args,        \* the arguments of a direct call of rotate_card, get_edge or edges_match;
                 \* the locals of a call of extract_solutions
    ret          \* the value such a call returned; extract_solutions' list of solutions

vars == <<pc, puzzle_type, output, cardset, grid_size, grid, used_cards, stack,
          solutions, choices, returned, caller, steps, args, ret>>

(***************************************************************************)
(* Bounds of the model.                                                    *)
(***************************************************************************)
MaxGrid == 2
MaxTiles == 4
MaxRot == 6
MaxCalls == 2
MaxSteps == 90000

None == <<>>

(***************************************************************************)
(* The two catalogs of the source.                                         *)
(***************************************************************************)
unicorn_cardset ==
    << << <<"P","T">>, <<"G","T">>, <<"R","H">>, <<"Y","H">> >>,
       << <<"P","H">>, <<"G","H">>, <<"R","T">>, <<"Y","T">> >>,
       << <<"R","T">>, <<"Y","H">>, <<"G","H">>, <<"P","T">> >>,
       << <<"R","H">>, <<"Y","H">>, <<"P","T">>, <<"Y","T">> >>,
       << <<"R","T">>, <<"G","T">>, <<"P","H">>, <<"Y","H">> >>,
       << <<"R","T">>, <<"P","T">>, <<"R","H">>, <<"G","H">> >>,
       << <<"P","H">>, <<"G","H">>, <<"R","T">>, <<"G","T">> >>,
       << <<"Y","T">>, <<"P","T">>, <<"Y","H">>, <<"G","H">> >>,
       << <<"P","T">>, <<"G","H">>, <<"Y","H">>, <<"Y","T">> >> >>

ultimate_cardset ==
    << << <<"C","O">>, <<"C","O">>, <<"A","I">>, <<"C","I">> >>,
       << <<"C","O">>, <<"A","O">>, <<"P","I">>, <<"C","I">> >>,
       << <<"C","O">>, <<"A","O">>, <<"A","I">>, <<"C","I">> >>,
       << <<"A","O">>, <<"B","O">>, <<"C","I">>, <<"A","I">> >>,
       << <<"A","O">>, <<"P","O">>, <<"C","I">>, <<"A","I">> >>,
       << <<"A","O">>, <<"A","O">>, <<"B","I">>, <<"C","I">> >>,
       << <<"A","O">>, <<"P","O">>, <<"B","I">>, <<"P","I">> >>,
       << <<"B","O">>, <<"C","O">>, <<"P","I">>, <<"C","I">> >>,
       << <<"B","O">>, <<"C","O">>, <<"A","I">>, <<"B","I">> >>,
       << <<"B","O">>, <<"C","O">>, <<"B","I">>, <<"P","I">> >>,
       << <<"B","O">>, <<"B","O">>, <<"P","I">>, <<"C","I">> >>,
       << <<"B","O">>, <<"B","O">>, <<"P","I">>, <<"A","I">> >>,
       << <<"P","O">>, <<"C","O">>, <<"C","I">>, <<"B","I">> >>,
       << <<"P","O">>, <<"C","O">>, <<"C","I">>, <<"P","I">> >>,
       << <<"P","O">>, <<"C","O">>, <<"A","I">>, <<"A","I">> >>,
       << <<"P","O">>, <<"B","O">>, <<"B","I">>, <<"A","I">> >> >>

(***************************************************************************)
(* rotate_card: rotations is taken mod 4 (Python's %, never negative for a *)
(* positive modulus), then the card is cycled that many times.             *)
(***************************************************************************)
RotateOnce(rotated) == <<rotated[4], rotated[1], rotated[2], rotated[3]>>

RotateOnceCounter(rotated) == <<rotated[2], rotated[3], rotated[4], rotated[1]>>

RECURSIVE RotateLoop(_, _)
RotateLoop(rotated, n) ==
    IF n <= 0 THEN rotated ELSE RotateLoop(RotateOnce(rotated), n - 1)

RECURSIVE RotateLoopCounter(_, _)
RotateLoopCounter(rotated, n) ==
    IF n <= 0 THEN rotated ELSE RotateLoopCounter(RotateOnceCounter(rotated), n - 1)

rotate_card_no_mod(card, rotations) ==
    IF rotations = 0 THEN card ELSE RotateLoop(card, rotations)

rotate_card_counter(card, rotations) ==
    LET r == rotations % 4
    IN  IF r = 0 THEN card ELSE RotateLoopCounter(card, r)

rotate_card(card, rotations) ==
    LET r == rotations % 4
    IN  IF r = 0 THEN card ELSE RotateLoop(card, r)

(***************************************************************************)
(* edges_match: same color, different part.                                *)
(***************************************************************************)
edges_match_color_only(edge1, edge2) ==
    IF edge1[1] # edge2[1] THEN FALSE ELSE TRUE

edges_match_same_part(edge1, edge2) ==
    IF edge1[1] # edge2[1] THEN FALSE
    ELSE IF edge1[2] # edge2[2] THEN FALSE
    ELSE TRUE

edges_match(edge1, edge2) ==
    IF edge1[1] # edge2[1] THEN FALSE
    ELSE IF edge1[2] = edge2[2] THEN FALSE
    ELSE TRUE

(***************************************************************************)
(* get_edge: the edge of a card in a named direction.                      *)
(***************************************************************************)
direction_map == [top |-> 0, right |-> 1, bottom |-> 2, left |-> 3]

get_edge(card, direction) == card[direction_map[direction] + 1]

(***************************************************************************)
(* is_valid_placement: the four neighbour checks, in the source's order.   *)
(***************************************************************************)
is_valid_placement_no_top(g, row, col, card, size) ==
    /\ ~ ( /\ col < size - 1
           /\ g[row][col + 1] # None
           /\ ~ edges_match(get_edge(card, "right"), get_edge(g[row][col + 1], "left")) )
    /\ ~ ( /\ row < size - 1
           /\ g[row + 1][col] # None
           /\ ~ edges_match(get_edge(card, "bottom"), get_edge(g[row + 1][col], "top")) )
    /\ ~ ( /\ col > 0
           /\ g[row][col - 1] # None
           /\ ~ edges_match(get_edge(card, "left"), get_edge(g[row][col - 1], "right")) )

is_valid_placement(g, row, col, card, size) ==
    /\ ~ ( /\ row > 0
           /\ g[row - 1][col] # None
           /\ ~ edges_match(get_edge(card, "top"), get_edge(g[row - 1][col], "bottom")) )
    /\ ~ ( /\ col < size - 1
           /\ g[row][col + 1] # None
           /\ ~ edges_match(get_edge(card, "right"), get_edge(g[row][col + 1], "left")) )
    /\ ~ ( /\ row < size - 1
           /\ g[row + 1][col] # None
           /\ ~ edges_match(get_edge(card, "bottom"), get_edge(g[row + 1][col], "top")) )
    /\ ~ ( /\ col > 0
           /\ g[row][col - 1] # None
           /\ ~ edges_match(get_edge(card, "left"), get_edge(g[row][col - 1], "right")) )

(***************************************************************************)
(* solve_puzzle.  The recursion of backtrack is an explicit stack: a frame *)
(* holds the call's card_index, its two loop variables, and where the call *)
(* stands: "entry" (before the test of line 190), "loop" (about to try the *)
(* candidate (card_idx, rotation)) or "undo" (the recursive call of line   *)
(* 216 is running or has returned, lines 219-220 come next).               *)
(***************************************************************************)
total_positions == grid_size * grid_size

EmptyGrid(size) == [row \in 0 .. size - 1 |-> [col \in 0 .. size - 1 |-> None]]

Frame(k) == [card_index |-> k, card_idx |-> 0, rotation |-> 0, at |-> "entry"]

Top == stack[Len(stack)]

Pop(s) == SubSeq(s, 1, Len(s) - 1)

SetTop(s, f) == [s EXCEPT ![Len(s)] = f]

RowOf(f) == f.card_index \div grid_size

ColOf(f) == f.card_index % grid_size

\* The next (card_idx, rotation) of the two nested for loops.
NextCandidate(f) ==
    IF f.rotation < 3
    THEN [f EXCEPT !.rotation = f.rotation + 1]
    ELSE [f EXCEPT !.card_idx = f.card_idx + 1, !.rotation = 0]

NextCandidateSkipCard(f) == [f EXCEPT !.card_idx = f.card_idx + 1, !.rotation = 0]

Candidate(f) == rotate_card(cardset[f.card_idx + 1], f.rotation)

Searching == pc = "search" /\ stack # <<>> /\ steps < MaxSteps

SolveCallKeepSolutions ==
    /\ pc = "call"
    /\ pc' = "search"
    /\ solutions' = solutions
    /\ choices' = choices
    /\ grid' = EmptyGrid(grid_size)
    /\ used_cards' = {}
    /\ stack' = <<Frame(0)>>
    /\ UNCHANGED <<puzzle_type, output, cardset, grid_size, returned, caller, steps, args, ret>>

\* Lines 178-180 and the call of line 222.
SolveCall ==
    /\ pc = "call"
    /\ pc' = "search"
    /\ solutions' = <<>>
    /\ choices' = <<>>
    /\ grid' = EmptyGrid(grid_size)
    /\ used_cards' = {}
    /\ stack' = <<Frame(0)>>
    /\ UNCHANGED <<puzzle_type, output, cardset, grid_size, returned, caller, steps, args, ret>>

\* The loop variables of the calls waiting at line 216, outermost first.
CallerChoices ==
    [i \in 1 .. Len(stack) - 1 |-> << stack[i].card_idx, stack[i].rotation >>]

CollectOneEarly ==
    /\ Searching
    /\ Top.at = "entry"
    /\ Top.card_index = total_positions - 1
    /\ solutions' = Append(solutions, grid)
    /\ choices' = Append(choices, CallerChoices)
    /\ stack' = Pop(stack)
    /\ steps' = steps + 1
    /\ UNCHANGED <<pc, puzzle_type, output, cardset, grid_size, grid, used_cards,
                   returned, caller, args, ret>>

CollectAtFront ==
    /\ Searching
    /\ Top.at = "entry"
    /\ Top.card_index = total_positions
    /\ solutions' = << grid >> \o solutions
    /\ choices' = << CallerChoices >> \o choices
    /\ stack' = Pop(stack)
    /\ steps' = steps + 1
    /\ UNCHANGED <<pc, puzzle_type, output, cardset, grid_size, grid, used_cards,
                   returned, caller, args, ret>>

\* Lines 190-195: every position is filled; snapshot the grid and return.
Collect ==
    /\ Searching
    /\ Top.at = "entry"
    /\ Top.card_index = total_positions
    /\ solutions' = Append(solutions, grid)
    /\ choices' = Append(choices, CallerChoices)
    /\ stack' = Pop(stack)
    /\ steps' = steps + 1
    /\ UNCHANGED <<pc, puzzle_type, output, cardset, grid_size, grid, used_cards,
                   returned, caller, args, ret>>

\* Lines 197-201: the call goes on to its loops.
EnterLoop ==
    /\ Searching
    /\ Top.at = "entry"
    /\ Top.card_index # total_positions
    /\ stack' = SetTop(stack, [Top EXCEPT !.at = "loop"])
    /\ steps' = steps + 1
    /\ UNCHANGED <<pc, puzzle_type, output, cardset, grid_size, grid, used_cards,
                   solutions, choices, returned, caller, args, ret>>

\* Lines 202-203: a used card is passed over.
SkipUsed ==
    /\ Searching
    /\ Top.at = "loop"
    /\ Top.card_idx < Len(cardset)
    /\ Top.card_idx \in used_cards
    /\ stack' = SetTop(stack, NextCandidateSkipCard(Top))
    /\ steps' = steps + 1
    /\ UNCHANGED <<pc, puzzle_type, output, cardset, grid_size, grid, used_cards,
                   solutions, choices, returned, caller, args, ret>>

RejectPlacementBreak ==
    /\ Searching
    /\ Top.at = "loop"
    /\ Top.card_idx < Len(cardset)
    /\ Top.card_idx \notin used_cards
    /\ ~ is_valid_placement(grid, RowOf(Top), ColOf(Top), Candidate(Top), grid_size)
    /\ stack' = SetTop(stack, NextCandidateSkipCard(Top))
    /\ steps' = steps + 1
    /\ UNCHANGED <<pc, puzzle_type, output, cardset, grid_size, grid, used_cards,
                   solutions, choices, returned, caller, args, ret>>

\* Lines 206-210, the test failing: on to the next rotation.
RejectPlacement ==
    /\ Searching
    /\ Top.at = "loop"
    /\ Top.card_idx < Len(cardset)
    /\ Top.card_idx \notin used_cards
    /\ ~ is_valid_placement(grid, RowOf(Top), ColOf(Top), Candidate(Top), grid_size)
    /\ stack' = SetTop(stack, NextCandidate(Top))
    /\ steps' = steps + 1
    /\ UNCHANGED <<pc, puzzle_type, output, cardset, grid_size, grid, used_cards,
                   solutions, choices, returned, caller, args, ret>>

PlaceCardUnmarked ==
    /\ Searching
    /\ Top.at = "loop"
    /\ Top.card_idx < Len(cardset)
    /\ is_valid_placement(grid, RowOf(Top), ColOf(Top), Candidate(Top), grid_size)
    /\ grid' = [grid EXCEPT ![RowOf(Top)][ColOf(Top)] = Candidate(Top)]
    /\ used_cards' = used_cards
    /\ stack' = Append(SetTop(stack, [Top EXCEPT !.at = "undo"]), Frame(Top.card_index + 1))
    /\ steps' = steps + 1
    /\ UNCHANGED <<pc, puzzle_type, output, cardset, grid_size, solutions, choices, returned,
                   caller, args, ret>>

PlaceCardTurnsCatalog ==
    /\ Searching
    /\ Top.at = "loop"
    /\ Top.card_idx < Len(cardset)
    /\ Top.card_idx \notin used_cards
    /\ is_valid_placement(grid, RowOf(Top), ColOf(Top), Candidate(Top), grid_size)
    /\ grid' = [grid EXCEPT ![RowOf(Top)][ColOf(Top)] = Candidate(Top)]
    /\ cardset' = [cardset EXCEPT ![Top.card_idx + 1] = Candidate(Top)]
    /\ used_cards' = used_cards \cup {Top.card_idx}
    /\ stack' = Append(SetTop(stack, [Top EXCEPT !.at = "undo"]), Frame(Top.card_index + 1))
    /\ steps' = steps + 1
    /\ UNCHANGED <<pc, puzzle_type, output, grid_size, solutions, choices, returned,
                   caller, args, ret>>

PlaceCardSameCell ==
    /\ Searching
    /\ Top.at = "loop"
    /\ Top.card_idx < Len(cardset)
    /\ Top.card_idx \notin used_cards
    /\ is_valid_placement(grid, RowOf(Top), ColOf(Top), Candidate(Top), grid_size)
    /\ grid' = [grid EXCEPT ![RowOf(Top)][ColOf(Top)] = Candidate(Top)]
    /\ used_cards' = used_cards \cup {Top.card_idx}
    /\ stack' = Append(SetTop(stack, [Top EXCEPT !.at = "undo"]), Frame(Top.card_index))
    /\ steps' = steps + 1
    /\ UNCHANGED <<pc, puzzle_type, output, cardset, grid_size, solutions, choices, returned,
                   caller, args, ret>>

\* Lines 206-216, the test passing: place the card, mark it, recurse.
PlaceCard ==
    /\ Searching
    /\ Top.at = "loop"
    /\ Top.card_idx < Len(cardset)
    /\ Top.card_idx \notin used_cards
    /\ is_valid_placement(grid, RowOf(Top), ColOf(Top), Candidate(Top), grid_size)
    /\ grid' = [grid EXCEPT ![RowOf(Top)][ColOf(Top)] = Candidate(Top)]
    /\ used_cards' = used_cards \cup {Top.card_idx}
    /\ stack' = Append(SetTop(stack, [Top EXCEPT !.at = "undo"]), Frame(Top.card_index + 1))
    /\ steps' = steps + 1
    /\ UNCHANGED <<pc, puzzle_type, output, cardset, grid_size, solutions, choices, returned,
                   caller, args, ret>>

UndoPlacementKeepUsed ==
    /\ Searching
    /\ Top.at = "undo"
    /\ grid' = [grid EXCEPT ![RowOf(Top)][ColOf(Top)] = None]
    /\ used_cards' = used_cards
    /\ stack' = SetTop(stack, [NextCandidate(Top) EXCEPT !.at = "loop"])
    /\ pc' = pc
    /\ steps' = steps + 1
    /\ UNCHANGED <<puzzle_type, output, cardset, grid_size, solutions, choices, returned,
                   caller, args, ret>>

UndoPlacementKeepGrid ==
    /\ Searching
    /\ Top.at = "undo"
    /\ IF Top.card_idx \in used_cards
       THEN /\ grid' = grid
            /\ used_cards' = used_cards \ {Top.card_idx}
            /\ stack' = SetTop(stack, [NextCandidate(Top) EXCEPT !.at = "loop"])
            /\ pc' = pc
       ELSE /\ grid' = grid
            /\ pc' = "error"
            /\ UNCHANGED <<used_cards, stack>>
    /\ steps' = steps + 1
    /\ UNCHANGED <<puzzle_type, output, cardset, grid_size, solutions, choices, returned,
                   caller, args, ret>>

\* Lines 218-220, after the recursive call returned; then the next candidate.
\* set.remove raises KeyError for an element that is not in the set.
UndoPlacement ==
    /\ Searching
    /\ Top.at = "undo"
    /\ IF Top.card_idx \in used_cards
       THEN /\ grid' = [grid EXCEPT ![RowOf(Top)][ColOf(Top)] = None]
            /\ used_cards' = used_cards \ {Top.card_idx}
            /\ stack' = SetTop(stack, [NextCandidate(Top) EXCEPT !.at = "loop"])
            /\ pc' = pc
       ELSE /\ grid' = [grid EXCEPT ![RowOf(Top)][ColOf(Top)] = None]
            /\ pc' = "error"
            /\ UNCHANGED <<used_cards, stack>>
    /\ steps' = steps + 1
    /\ UNCHANGED <<puzzle_type, output, cardset, grid_size, solutions, choices, returned,
                   caller, args, ret>>

\* Line 201 with no card left: the call returns.
LoopExhausted ==
    /\ Searching
    /\ Top.at = "loop"
    /\ Top.card_idx >= Len(cardset)
    /\ stack' = Pop(stack)
    /\ steps' = steps + 1
    /\ UNCHANGED <<pc, puzzle_type, output, cardset, grid_size, grid, used_cards,
                   solutions, choices, returned, caller, args, ret>>

\* Line 223: backtrack(0, set()) has returned; solve_puzzle returns solutions.
SolveReturn ==
    /\ pc = "search"
    /\ stack = <<>>
    /\ pc' = "done"
    /\ returned' = Append(returned, solutions)
    /\ UNCHANGED <<puzzle_type, output, cardset, grid_size, grid, used_cards, stack,
                   solutions, choices, caller, steps, args, ret>>

SearchStep ==
    \/ SolveCall
    \/ Collect
    \/ EnterLoop
    \/ SkipUsed
    \/ RejectPlacement
    \/ PlaceCard
    \/ UndoPlacement
    \/ LoopExhausted
    \/ SolveReturn

(***************************************************************************)
(* A harness that calls solve_puzzle(cardset, grid_size) directly, as a    *)
(* test does, on catalogs over a small pool of tiles.                      *)
(***************************************************************************)
TileA == << <<"B","H">>, <<"A","H">>, <<"A","H">>, <<"B","H">> >>
TileB == << <<"A","T">>, <<"A","T">>, <<"B","H">>, <<"B","H">> >>
TileC == << <<"B","H">>, <<"A","H">>, <<"B","H">>, <<"A","T">> >>

TilePool == {TileA, TileB, TileC}

Catalogs == UNION { [1 .. n -> TilePool] : n \in 0 .. MaxTiles }

GridSizes == 0 .. MaxGrid

HarnessInit(catalogs, sizes) ==
    /\ pc = "call"
    /\ caller = "harness"
    /\ cardset \in catalogs
    /\ grid_size \in sizes
    /\ puzzle_type = <<>>
    /\ output = <<>>
    /\ grid = <<>>
    /\ used_cards = {}
    /\ stack = <<>>
    /\ solutions = <<>>
    /\ choices = <<>>
    /\ returned = <<>>
    /\ steps = 0
    /\ args = <<>>
    /\ ret = <<>>

Init == HarnessInit(Catalogs, GridSizes)

Next == SearchStep

Spec == Init /\ [][Next]_vars

(***************************************************************************)
(* What a solution is, stated without the solver's operators: an edge pair *)
(* matches when the labels agree and the polarities differ; a tile turned  *)
(* r quarter-turns shows at direction d the edge it lists at (d - r) mod 4.*)
(***************************************************************************)
Matches(e, f) == e[1] = f[1] /\ e[2] # f[2]

Oriented(t, r) ==
    << t[((0 - r) % 4) + 1], t[((1 - r) % 4) + 1], t[((2 - r) % 4) + 1], t[((3 - r) % 4) + 1] >>

AllAdjacentMatch(g, size) ==
    \A row \in 0 .. size - 1 : \A col \in 0 .. size - 1 :
        /\ col + 1 < size => Matches(g[row][col][2], g[row][col + 1][4])
        /\ row + 1 < size => Matches(g[row][col][3], g[row + 1][col][1])

AllFilled(g, size) ==
    /\ DOMAIN g = 0 .. size - 1
    /\ \A row \in 0 .. size - 1 :
          /\ DOMAIN g[row] = 0 .. size - 1
          /\ \A col \in 0 .. size - 1 : g[row][col] # None /\ Len(g[row][col]) = 4

Range(s) == { s[i] : i \in DOMAIN s }

\* The sequences of n distinct elements of S.
RECURSIVE InjectiveSeqs(_, _)
InjectiveSeqs(S, n) ==
    IF n = 0 THEN { <<>> }
    ELSE UNION { { Append(s, x) : x \in S \ Range(s) } : s \in InjectiveSeqs(S, n - 1) }

\* A complete assignment: a tile index and an orientation for every cell, in
\* row-major order, no tile index chosen twice.
Assignments ==
    { [tiles |-> p, rots |-> r] :
        p \in InjectiveSeqs(0 .. Len(cardset) - 1, total_positions),
        r \in [1 .. total_positions -> 0 .. 3] }

GridOfAssignment(a) ==
    [row \in 0 .. grid_size - 1 |->
        [col \in 0 .. grid_size - 1 |->
            Oriented(cardset[a.tiles[row * grid_size + col + 1] + 1],
                     a.rots[row * grid_size + col + 1])]]

ValidAssignments == { a \in Assignments : AllAdjacentMatch(GridOfAssignment(a), grid_size) }

\* C1: when solve_puzzle returns, its list holds every grid exactly as often as
\* there are valid complete assignments (injective tile choice plus orientations,
\* all adjacent edges matching) that produce it: none missing, none extra, none
\* merged with a value-identical one.
C1_AllSolutionsWithMultiplicity ==
    pc = "done" =>
        LET valid == ValidAssignments
            grids == { GridOfAssignment(a) : a \in valid }
        IN  /\ Len(solutions) = Cardinality(valid)
            /\ \A i \in 1 .. Len(solutions) : solutions[i] \in grids
            /\ \A g \in grids :
                  Cardinality({ i \in 1 .. Len(solutions) : solutions[i] = g })
                     = Cardinality({ a \in valid : GridOfAssignment(a) = g })
            /\ returned[Len(returned)] = solutions

\* A 2x2 search that returned several solutions, two of them value-identical.
C1_Witness ==
    /\ pc = "done"
    /\ grid_size = 2
    /\ \E i \in 1 .. Len(solutions) : \E j \in 1 .. Len(solutions) :
          i < j /\ solutions[i] = solutions[j]
    /\ \E i \in 1 .. Len(solutions) : \E j \in 1 .. Len(solutions) :
          solutions[i] # solutions[j]

\* C2: in every collected solution each left cell's East edge matches its right
\* neighbour's West edge and each upper cell's South edge matches its lower
\* neighbour's North edge (same label, opposite polarity).
C2_SolutionsValid ==
    /\ \A i \in 1 .. Len(solutions) : AllAdjacentMatch(solutions[i], grid_size)
    /\ \A k \in 1 .. Len(returned) : \A i \in 1 .. Len(returned[k]) :
          AllAdjacentMatch(returned[k][i], grid_size)

C2_Witness ==
    /\ pc = "done"
    /\ grid_size = 2
    /\ Len(returned) = 1
    /\ Len(returned[1]) > 0

\* The tile index and rotation chosen for the cell of row-major index k by the
\* calls of backtrack that are active.
PickedTiles == { stack[k].card_idx : k \in 1 .. Len(stack) - 1 }

\* C3: every collected solution has all N*N cells filled, and it is the grid of
\* N*N pairwise distinct catalog indices (each cell the chosen tile in the chosen
\* orientation); when the catalog has exactly N*N tiles every index is used.
C3_TileUniqueness ==
    /\ [](\A i \in 1 .. Len(solutions) : AllFilled(solutions[i], grid_size))
    /\ [][ Len(solutions') = Len(solutions) + 1 =>
             LET s == solutions'[Len(solutions')]
             IN  /\ Len(stack) = total_positions + 1
                 /\ AllFilled(s, grid_size)
                 /\ \A k \in 1 .. total_positions :
                       /\ stack[k].card_idx \in 0 .. Len(cardset) - 1
                       /\ s[(k - 1) \div grid_size][(k - 1) % grid_size]
                             = Oriented(cardset[stack[k].card_idx + 1], stack[k].rotation)
                 /\ \A j \in 1 .. total_positions : \A k \in 1 .. total_positions :
                       j # k => stack[j].card_idx # stack[k].card_idx
                 /\ Cardinality(PickedTiles) = total_positions
                 /\ Len(cardset) = total_positions => PickedTiles = 0 .. Len(cardset) - 1
         ]_vars

\* A solution of a 2x2 grid over a catalog of exactly four tiles is about to be
\* collected.
C3_Witness ==
    /\ pc = "search"
    /\ grid_size = 2
    /\ Len(cardset) = 4
    /\ Len(stack) = 5
    /\ Len(solutions) >= 1

\* Tile 0's edge at 0-based position d of the catalog entry matches no edge of
\* any other tile.
Tile0EdgeUnmatched(d) ==
    \A t \in 2 .. Len(cardset) : \A e \in 1 .. 4 : ~ Matches(cardset[1][d + 1], cardset[t][e])

ZeroFixture ==
    /\ grid_size >= 2
    /\ Len(cardset) = total_positions

\* C6 as stated: tile 0's North edge matching no edge of another tile leaves no
\* solution.
C6_Original ==
    (ZeroFixture /\ Tile0EdgeUnmatched(0) /\ pc = "done") => solutions = <<>>

\* C6 as amended: when tile 0's North edge and its South edge both match no edge
\* of any other tile, no solution is ever collected, no error is raised, and the
\* list returned is empty.
C6_ZeroFixture ==
    (ZeroFixture /\ Tile0EdgeUnmatched(0) /\ Tile0EdgeUnmatched(2)) =>
        /\ solutions = <<>>
        /\ pc # "error"
        /\ pc = "done" => returned = << <<>> >>

\* Such a catalog, searched to the end, tile 0 having been placed on the way.
C6_Witness ==
    /\ ZeroFixture
    /\ Tile0EdgeUnmatched(0)
    /\ Tile0EdgeUnmatched(2)
    /\ pc = "done"
    /\ returned = << <<>> >>
    /\ steps > 4 * Len(cardset)

(***************************************************************************)
(* The harness calling solve_puzzle again with the same arguments.         *)
(***************************************************************************)
CallAgain ==
    /\ pc = "done"
    /\ caller = "harness"
    /\ Len(returned) < MaxCalls
    /\ pc' = "call"
    /\ UNCHANGED <<puzzle_type, output, cardset, grid_size, grid, used_cards, stack,
                   solutions, choices, returned, caller, steps, args, ret>>

NextRerun == SearchStep \/ CallAgain

SpecRerun == Init /\ [][NextRerun]_vars

\* C4: all calls of solve_puzzle on the same catalog and grid size return the
\* same solutions in the same order.
C4_Deterministic ==
    \A i \in 1 .. Len(returned) : \A j \in 1 .. Len(returned) : returned[i] = returned[j]

\* Two completed calls on a 2x2 grid, each returning several solutions.
C4_Witness ==
    /\ Len(returned) = 2
    /\ grid_size = 2
    /\ Len(returned[1]) >= 2
    /\ Len(returned[2]) >= 2

(***************************************************************************)
(* The 2x2 fixture of four tiles that each carry one edge on all four      *)
(* sides.                                                                  *)
(***************************************************************************)
UniformTile(e) == <<e, e, e, e>>

UniformEdges == { <<"A","H">>, <<"A","T">>, <<"B","H">> }

UniformCatalogs == { [i \in 1 .. 4 |-> UniformTile(e[i])] : e \in [1 .. 4 -> UniformEdges] }

InitUniform == HarnessInit(UniformCatalogs, {2})

SpecUniform == InitUniform /\ [][Next]_vars

\* The orderings of the four tiles over the cells in which all four adjacent
\* pairs match (the tiles being uniform, orientation plays no part).
ValidOrderings ==
    { p \in InjectiveSeqs(0 .. 3, 4) :
        AllAdjacentMatch(GridOfAssignment([tiles |-> p, rots |-> [k \in 1 .. 4 |-> 0]]), 2) }

\* All four tiles share a label and each polarity is carried by exactly two.
Balanced ==
    /\ \A i \in 1 .. 4 : cardset[i][1][1] = cardset[1][1][1]
    /\ \A i \in 1 .. 4 : Cardinality({ j \in 1 .. 4 : cardset[j][1][2] = cardset[i][1][2] }) = 2

TileD == << <<"A","H">>, <<"A","T">>, <<"B","H">>, <<"B","T">> >>

TestCards == TilePool \cup {TileD}

TestEdges == { <<l, q>> : l \in {"A", "B", "P"}, q \in {"H", "T", "O"} }

Rotations == (0 - MaxRot) .. MaxRot

DirectionNames == <<"top", "right", "bottom", "left">>

PureArgs ==
    [fn : {"rotate_card"}, card : TestCards, r1 : Rotations, r2 : Rotations, d : 0 .. 3]
    \cup [fn : {"edges_match"}, edge1 : TestEdges, edge2 : TestEdges]

InitPure ==
    /\ pc = "pure"
    /\ args \in PureArgs
    /\ ret = <<>>
    /\ caller = "harness"
    /\ cardset = <<>>
    /\ grid_size = 0
    /\ puzzle_type = <<>>
    /\ output = <<>>
    /\ grid = <<>>
    /\ used_cards = {}
    /\ stack = <<>>
    /\ solutions = <<>>
    /\ choices = <<>>
    /\ returned = <<>>
    /\ steps = 0

PureFrame == <<puzzle_type, output, cardset, grid_size, grid, used_cards, stack,
               solutions, choices, returned, caller, steps, args>>

\* rotate_card(card, r1)
CallRotate ==
    /\ pc = "pure"
    /\ args.fn = "rotate_card"
    /\ ret' = rotate_card(args.card, args.r1)
    /\ pc' = "rotated"
    /\ UNCHANGED PureFrame

\* rotate_card(rotate_card(card, r1), r2)
CallRotateAgain ==
    /\ pc = "rotated"
    /\ ret' = rotate_card(ret, args.r2)
    /\ pc' = "rotated_twice"
    /\ UNCHANGED PureFrame

\* get_edge(rotate_card(card, r1), direction d)
CallGetEdge ==
    /\ pc = "rotated"
    /\ ret' = get_edge(ret, DirectionNames[args.d + 1])
    /\ pc' = "edge"
    /\ UNCHANGED PureFrame

\* edges_match(edge1, edge2)
CallEdgesMatch ==
    /\ pc = "pure"
    /\ args.fn = "edges_match"
    /\ ret' = edges_match(args.edge1, args.edge2)
    /\ pc' = "matched"
    /\ UNCHANGED PureFrame

NextPure == CallRotate \/ CallRotateAgain \/ CallGetEdge \/ CallEdgesMatch

SpecPure == InitPure /\ [][NextPure]_vars

\* C7: edges_match(a, b) is true exactly when a and b have the same label and
\* different polarity; it equals edges_match(b, a); no edge matches itself.
C7_EdgesMatch ==
    pc = "matched" =>
        /\ ret = (args.edge1[1] = args.edge2[1] /\ args.edge1[2] # args.edge2[2])
        /\ ret = edges_match(args.edge2, args.edge1)
        /\ args.edge1 = args.edge2 => ret = FALSE

\* Two different edges that match.
C7_Witness ==
    /\ pc = "matched"
    /\ ret = TRUE
    /\ args.edge1 # args.edge2

\* C8: rotate_card(rotate_card(t, r1), r2) = rotate_card(t, (r1 + r2) mod 4) for
\* all integers r1, r2, negative and above 3 included; rotate_card(t, 4) = t; no
\* rotation argument is rejected.
C8_RotationClosure ==
    /\ pc = "rotated_twice" => ret = rotate_card(args.card, (args.r1 + args.r2) % 4)
    /\ (pc = "rotated" /\ args.r1 = 4) => ret = args.card
    /\ pc \in {"rotated", "rotated_twice"} => (Len(ret) = 4 /\ Range(ret) = Range(args.card))
    /\ pc # "error"

\* A negative rotation followed by one above 3, the result differing from the tile.
C8_Witness ==
    /\ pc = "rotated_twice"
    /\ args.r1 < 0
    /\ args.r2 > 3
    /\ ret # args.card
    /\ ret = Oriented(args.card, 1)

\* C9: the edge at direction d of rotate_card(t, r) is the edge t lists at
\* direction (d - r) mod 4; rotation by 0 returns a tile equal to t.
C9_RotationShift ==
    /\ pc = "edge" => ret = args.card[((args.d - args.r1) % 4) + 1]
    /\ (pc = "rotated" /\ args.r1 = 0) => ret = args.card

\* One quarter-turn: the North edge is the edge the tile lists as West.
C9_Witness ==
    /\ pc = "edge"
    /\ args.r1 = 1
    /\ args.d = 0
    /\ ret = args.card[4]
    /\ ret # args.card[1]

(***************************************************************************)
(* main.  A string is a tuple of characters; a printed line is a string.   *)
(***************************************************************************)
UpperCase == <<"A", "B", "C", "D", "E", "F", "G", "H", "I", "J", "K", "L", "M", "N", "O", "P", "Q", "R", "S", "T", "U", "V", "W", "X", "Y", "Z">>

LowerCase == <<"a", "b", "c", "d", "e", "f", "g", "h", "i", "j", "k", "l", "m", "n", "o", "p", "q", "r", "s", "t", "u", "v", "w", "x", "y", "z">>

Digits == <<"0", "1", "2", "3", "4", "5", "6", "7", "8", "9">>

\* str.lower on one character: Python maps each of A-Z to a-z; no character
\* outside ASCII lowers to text made of the letters of the two accepted names.
lower_char(c) ==
    IF \E i \in 1 .. 26 : UpperCase[i] = c
    THEN LowerCase[CHOOSE i \in 1 .. 26 : UpperCase[i] = c]
    ELSE c

lower(str) == [i \in 1 .. Len(str) |-> lower_char(str[i])]

\* str(n) for n >= 0
RECURSIVE ToDecimal(_)
ToDecimal(n) ==
    IF n < 10 THEN << Digits[n + 1] >>
    ELSE ToDecimal(n \div 10) \o << Digits[(n % 10) + 1] >>

Repeat(c, n) == [i \in 1 .. n |-> c]

TextUnicorn == <<"u", "n", "i", "c", "o", "r", "n">>

TextUltimate == <<"u", "l", "t", "i", "m", "a", "t", "e">>

TextUnicornPuzzle == <<"U", "n", "i", "c", "o", "r", "n", " ", "P", "u", "z", "z", "l", "e">>

TextUltimatePuzzle == <<"U", "l", "t", "i", "m", "a", "t", "e", " ", "P", "u", "z", "z", "l", "e">>

TextSolving == <<"S", "o", "l", "v", "i", "n", "g", " ">>

TextDots == <<".", ".", ".">>

TextTotalCards == <<"T", "o", "t", "a", "l", " ", "c", "a", "r", "d", "s", ":", " ">>

TextGridSize == <<"G", "r", "i", "d", " ", "s", "i", "z", "e", ":", " ">>

TextSearching == <<"S", "e", "a", "r", "c", "h", "i", "n", "g", " ", "f", "o", "r", " ", "a", "l", "l", " ", "v", "a", "l", "i", "d", " ", "s", "o", "l", "u", "t", "i", "o", "n", "s", ".", ".", ".">>

TextFound == <<"F", "o", "u", "n", "d", " ">>

TextSolutions == <<" ", "s", "o", "l", "u", "t", "i", "o", "n", "(", "s", ")">>

TextSolution == <<"S", "o", "l", "u", "t", "i", "o", "n", " ">>

TextNoSolutions == <<"N", "o", " ", "s", "o", "l", "u", "t", "i", "o", "n", "s", " ", "f", "o", "u", "n", "d", "!">>

\* "|".join(parts) and the like
RECURSIVE Join(_, _)
Join(sep, parts) ==
    IF Len(parts) = 0 THEN <<>>
    ELSE IF Len(parts) = 1 THEN parts[1]
    ELSE parts[1] \o sep \o Join(sep, Tail(parts))

EdgeText(edge) == << edge[1], edge[2] >>

top_parts(row, size) ==
    [c \in 1 .. size |-> <<" ", " ", " ">> \o EdgeText(row[c - 1][1]) \o <<" ", " ", " ">>]

middle_parts_east_first(row, size) ==
    [c \in 1 .. size |->
        <<" ">> \o EdgeText(row[c - 1][2]) \o <<" ", " ">> \o EdgeText(row[c - 1][4]) \o <<" ">>]

middle_parts(row, size) ==
    [c \in 1 .. size |->
        <<" ">> \o EdgeText(row[c - 1][4]) \o <<" ", " ">> \o EdgeText(row[c - 1][2]) \o <<" ">>]

bottom_parts(row, size) ==
    [c \in 1 .. size |-> <<" ", " ", " ">> \o EdgeText(row[c - 1][3]) \o <<" ", " ", " ">>]

BarLine(parts) == <<"|">> \o Join(<<"|">>, parts) \o <<"|">>

RECURSIVE PrintRows(_, _, _)
PrintRows(solution, size, row_idx) ==
    IF row_idx >= size THEN <<>>
    ELSE << Repeat("-", size * 8 + size + 1),
            BarLine(top_parts(solution[row_idx], size)),
            BarLine(middle_parts(solution[row_idx], size)),
            BarLine(bottom_parts(solution[row_idx], size)) >>
         \o PrintRows(solution, size, row_idx + 1)

\* The lines print_solution prints; grid_size = len(solution).
print_solution(solution) ==
    LET size == Cardinality(DOMAIN solution)
    IN  PrintRows(solution, size, 0) \o << Repeat("-", size * 8 + size + 1) >>

\* The loop of lines 300-302, from solution number idx on.
RECURSIVE PrintSolutionsFrom(_, _)
PrintSolutionsFrom(sols, idx) ==
    IF idx > Len(sols) THEN <<>>
    ELSE << <<>>, TextSolution \o ToDecimal(idx) \o <<":">> >>
         \o print_solution(sols[idx])
         \o PrintSolutionsFrom(sols, idx + 1)

\* Lines 278-280 or 282-284, then 288-291.
MainStart(cards, size, puzzle_name) ==
    /\ cardset' = cards
    /\ grid_size' = size
    /\ output' = output \o
          << TextSolving \o puzzle_name \o TextDots,
             TextTotalCards \o ToDecimal(Len(cards)),
             TextGridSize \o ToDecimal(size) \o <<"x">> \o ToDecimal(size),
             <<>>,
             TextSearching >>
    /\ pc' = "call"
    /\ UNCHANGED <<puzzle_type, grid, used_cards, stack, solutions, choices, returned, caller,
                   steps, args, ret>>

MainSelectExact ==
    /\ pc = "main"
    /\ IF puzzle_type = TextUnicorn
       THEN MainStart(unicorn_cardset, 3, TextUnicornPuzzle)
       ELSE IF puzzle_type = TextUltimate
       THEN MainStart(ultimate_cardset, 4, TextUltimatePuzzle)
       ELSE /\ pc' = "error"
            /\ UNCHANGED <<puzzle_type, output, cardset, grid_size, grid, used_cards,
                           stack, solutions, choices, returned, caller, steps, args, ret>>

\* Lines 277-291: the variant is chosen by the lowered name; any other name
\* raises ValueError, which nothing catches.
MainSelect ==
    /\ pc = "main"
    /\ IF lower(puzzle_type) = TextUnicorn
       THEN MainStart(unicorn_cardset, 3, TextUnicornPuzzle)
       ELSE IF lower(puzzle_type) = TextUltimate
       THEN MainStart(ultimate_cardset, 4, TextUltimatePuzzle)
       ELSE /\ pc' = "error"
            /\ UNCHANGED <<puzzle_type, output, cardset, grid_size, grid, used_cards,
                           stack, solutions, choices, returned, caller, steps, args, ret>>

\* Lines 293-304: solve_puzzle has returned to main; the count and every
\* solution are printed.
ReportLines(found) ==
    << <<>>,
       Repeat("=", 50),
       TextFound \o ToDecimal(Len(found)) \o TextSolutions,
       Repeat("=", 50) >>
    \o (IF found # <<>>
        THEN PrintSolutionsFrom(found, 1)
        ELSE << <<>>, TextNoSolutions >>)

MainReport ==
    /\ pc = "done"
    /\ caller = "main"
    /\ output' = output \o ReportLines(returned[Len(returned)])
    /\ pc' = "exit"
    /\ UNCHANGED <<puzzle_type, cardset, grid_size, grid, used_cards, stack, solutions, choices,
                   returned, caller, steps, args, ret>>

PuzzleNames ==
    { TextUnicorn, TextUltimate,
      <<"U", "n", "i", "c", "o", "r", "n">>, <<"U", "L", "T", "I", "M", "A", "T", "E">>,
      <<"u", "n", "i", "c", "o", "r", "n", "s">>, <<"u", "l", "t", "i", "m", "a", "t">>, <<"U", "n", "i", "c", "o", "r", "n", " ", "P", "u", "z", "z", "l", "e">>,
      <<"3", "x", "3">>, <<"o", "t", "h", "e", "r">>, <<>> }

InitMain ==
    /\ pc = "main"
    /\ caller = "main"
    /\ puzzle_type \in PuzzleNames
    /\ output = <<>>
    /\ cardset = <<>>
    /\ grid_size = 0
    /\ grid = <<>>
    /\ used_cards = {}
    /\ stack = <<>>
    /\ solutions = <<>>
    /\ choices = <<>>
    /\ returned = <<>>
    /\ steps = 0
    /\ args = <<>>
    /\ ret = <<>>

NextMain == MainSelect \/ SearchStep \/ MainReport

SpecMain == InitMain /\ [][NextMain]_vars

Accepted(name) == lower(name) = TextUnicorn \/ lower(name) = TextUltimate

NothingRun ==
    /\ steps = 0
    /\ output = <<>>
    /\ cardset = <<>>
    /\ stack = <<>>
    /\ solutions = <<>>
    /\ returned = <<>>

\* C10 as stated: exactly the two names 'unicorn' and 'ultimate' are accepted,
\* every other name ends in the error state.
C10_Original ==
    (pc # "main" /\ puzzle_type # TextUnicorn /\ puzzle_type # TextUltimate) => pc = "error"

\* C10 as amended: main accepts exactly the names whose lower-cased form is
\* 'unicorn' or 'ultimate'; for any other name its first step ends in the error
\* state, with no search step taken, nothing printed and no solution produced;
\* an accepted name never ends in the error state.
C10_UnknownVariantFatal ==
    /\ (~ Accepted(puzzle_type) /\ pc # "main") => (pc = "error" /\ NothingRun)
    /\ Accepted(puzzle_type) => pc # "error"
    /\ pc = "main" => NothingRun

\* An unknown name that differs from an accepted one by a single letter has
\* ended in the error state.
C10_Witness ==
    /\ pc = "error"
    /\ Len(puzzle_type) = 8
    /\ SubSeq(puzzle_type, 1, 7) = TextUnicorn
    /\ NothingRun

(***************************************************************************)
(* compare_solutions.py: extract_solutions reads the printed text back,    *)
(* one line per step of its loop; normalize_solution joins a parsed        *)
(* solution into one string.                                               *)
(***************************************************************************)
Whitespace == {" ", "\t", "\n", "\r"}

RECURSIVE lstrip(_)
lstrip(str) ==
    IF str # <<>> /\ str[1] \in Whitespace THEN lstrip(Tail(str)) ELSE str

RECURSIVE rstrip(_)
rstrip(str) ==
    IF str # <<>> /\ str[Len(str)] \in Whitespace
    THEN rstrip(SubSeq(str, 1, Len(str) - 1))
    ELSE str

\* str.strip()
strip(str) == rstrip(lstrip(str))

\* str.startswith(prefix)
startswith(str, prefix) ==
    /\ Len(str) >= Len(prefix)
    /\ SubSeq(str, 1, Len(prefix)) = prefix

\* str.split(sep) for a one-character sep: the pieces between the separators,
\* empty pieces included; piece is the text read since the last separator.
RECURSIVE SplitFrom(_, _, _, _)
SplitFrom(str, sep, i, piece) ==
    IF i > Len(str) THEN << piece >>
    ELSE IF str[i] = sep THEN << piece >> \o SplitFrom(str, sep, i + 1, <<>>)
    ELSE SplitFrom(str, sep, i + 1, Append(piece, str[i]))

split(str, sep) == SplitFrom(str, sep, 1, <<>>)

NonEmpty(str) == str # <<>>

\* Line 62: [p.strip() for p in line.split("|") if p.strip()]
LineParts(line) ==
    LET pieces == split(line, "|")
    IN  SelectSeq([i \in 1 .. Len(pieces) |-> strip(pieces[i])], NonEmpty)

TextSolutionWord == <<"S", "o", "l", "u", "t", "i", "o", "n">>

IsHeaderLine(line) == startswith(line, TextSolutionWord)

IsSeparatorLine(line) == ~ IsHeaderLine(line) /\ startswith(line, <<"-">>)

IsCardLine(line) ==
    /\ ~ IsHeaderLine(line)
    /\ ~ IsSeparatorLine(line)
    /\ startswith(line, <<"|">>)
    /\ \E i \in 1 .. Len(line) : line[i] = "|"

\* Lines 33-44: the grid size guessed from the first separator; <<>> is None.
DetectGridSize(known, sep_len) ==
    IF known # <<>> THEN known
    ELSE IF sep_len = 28 THEN << 3 >>
    ELSE IF sep_len \in {37, 39} THEN << 4 >>
    ELSE << 3 >>

\* Lines 16-21: the locals of extract_solutions before the first line.
OpenOutput ==
    /\ pc = "exit"
    /\ args' = [line_no |-> 1,
                grid_size |-> <<>>,
                current_solution |-> <<>>,
                current_row_cards |-> <<>>,
                prev_was_separator |-> FALSE]
    /\ ret' = <<>>
    /\ pc' = "parsing"
    /\ UNCHANGED <<puzzle_type, output, cardset, grid_size, grid, used_cards, stack,
                   solutions, choices, returned, caller, steps>>

Reading == pc = "parsing" /\ args.line_no <= Len(output)

CurrentLine == strip(output[args.line_no])

ParseFrame ==
    UNCHANGED <<pc, puzzle_type, output, cardset, grid_size, grid, used_cards, stack,
                solutions, choices, returned, caller, steps>>

\* Lines 24-30: a "Solution" header closes the solution read so far.
ParseHeader ==
    /\ Reading
    /\ IsHeaderLine(CurrentLine)
    /\ ret' = IF args.current_solution # <<>>
              THEN Append(ret, args.current_solution)
              ELSE ret
    /\ args' = [args EXCEPT !.line_no = @ + 1,
                            !.current_solution = <<>>,
                            !.current_row_cards = <<>>,
                            !.prev_was_separator = FALSE]
    /\ ParseFrame

\* Lines 31-59: a separator closes a grid row of three lines; a second
\* separator in a row closes the solution.
ParseSeparator ==
    /\ Reading
    /\ IsSeparatorLine(CurrentLine)
    /\ LET row_done == Len(args.current_row_cards) = 3
           with_row == IF row_done
                       THEN Append(args.current_solution, args.current_row_cards)
                       ELSE args.current_solution
           row_left == IF row_done THEN <<>> ELSE args.current_row_cards
           double == args.prev_was_separator /\ with_row # <<>>
       IN  /\ ret' = IF double THEN Append(ret, with_row) ELSE ret
           /\ args' = [args EXCEPT
                          !.line_no = @ + 1,
                          !.grid_size = DetectGridSize(@, Len(CurrentLine)),
                          !.current_solution = IF double THEN <<>> ELSE with_row,
                          !.current_row_cards = IF double THEN <<>> ELSE row_left,
                          !.prev_was_separator = TRUE]
    /\ ParseFrame

\* Lines 60-64: a line of cells adds its entries to the grid row being read.
ParseCardLine ==
    /\ Reading
    /\ IsCardLine(CurrentLine)
    /\ args' = [args EXCEPT
                   !.line_no = @ + 1,
                   !.current_row_cards = Append(@, LineParts(CurrentLine)),
                   !.prev_was_separator = FALSE]
    /\ ret' = ret
    /\ ParseFrame

\* Any other line changes nothing.
ParseOtherLine ==
    /\ Reading
    /\ ~ IsHeaderLine(CurrentLine)
    /\ ~ IsSeparatorLine(CurrentLine)
    /\ ~ IsCardLine(CurrentLine)
    /\ args' = [args EXCEPT !.line_no = @ + 1]
    /\ ret' = ret
    /\ ParseFrame

\* Lines 66-72: the end of the file closes the last row and the last solution.
ParseEnd ==
    /\ pc = "parsing"
    /\ args.line_no > Len(output)
    /\ LET with_row == IF Len(args.current_row_cards) = 3
                       THEN Append(args.current_solution, args.current_row_cards)
                       ELSE args.current_solution
       IN  /\ ret' = IF with_row # <<>> THEN Append(ret, with_row) ELSE ret
           /\ args' = [args EXCEPT !.current_solution = with_row]
    /\ pc' = "parsed"
    /\ UNCHANGED <<puzzle_type, output, cardset, grid_size, grid, used_cards, stack,
                   solutions, choices, returned, caller, steps>>

extract_solutions ==
    OpenOutput \/ ParseHeader \/ ParseSeparator \/ ParseCardLine \/ ParseOtherLine
    \/ ParseEnd

Min3(a, b, c) ==
    IF a <= b /\ a <= c THEN a ELSE IF b <= c THEN b ELSE c

\* Line 83: the entries of the three lines of a grid row, zipped and joined.
NormalizeRow(grid_row) ==
    Join(<<"|">>,
         [i \in 1 .. Min3(Len(grid_row[1]), Len(grid_row[2]), Len(grid_row[3])) |->
             grid_row[1][i] \o <<"|">> \o grid_row[2][i] \o <<"|">> \o grid_row[3][i]])

normalize_solution(solution) ==
    Join(<< "\n" >>, [r \in 1 .. Len(solution) |-> NormalizeRow(solution[r])])

\* Lines 299-304 applied to the list a direct call of solve_puzzle returned.
ReportSolutions ==
    /\ pc = "done"
    /\ caller = "harness"
    /\ output' = output \o ReportLines(returned[Len(returned)])
    /\ pc' = "exit"
    /\ UNCHANGED <<puzzle_type, cardset, grid_size, grid, used_cards, stack, solutions, choices,
                   returned, caller, steps, args, ret>>

InitRoundTrip == Init \/ (InitMain /\ puzzle_type = TextUnicorn)

NextRoundTrip ==
    MainSelect \/ SearchStep \/ MainReport \/ ReportSolutions \/ extract_solutions

SpecRoundTrip == InitRoundTrip /\ [][NextRoundTrip]_vars

\* The comparison form of a solved grid, written from the grid itself: per
\* cell North | West, two blanks, East | South; cells of a row joined by "|",
\* rows by a newline.
CanonicalCell(card) ==
    << card[1][1], card[1][2], "|",
       card[4][1], card[4][2], " ", " ", card[2][1], card[2][2], "|",
       card[3][1], card[3][2] >>

RECURSIVE CanonicalRowFrom(_, _, _, _)
CanonicalRowFrom(solution, size, row, col) ==
    IF col >= size THEN <<>>
    ELSE (IF col > 0 THEN <<"|">> ELSE <<>>)
         \o CanonicalCell(solution[row][col])
         \o CanonicalRowFrom(solution, size, row, col + 1)

RECURSIVE CanonicalFrom(_, _, _)
CanonicalFrom(solution, size, row) ==
    IF row >= size THEN <<>>
    ELSE (IF row > 0 THEN << "\n" >> ELSE <<>>)
         \o CanonicalRowFrom(solution, size, row, 0)
         \o CanonicalFrom(solution, size, row + 1)

CanonicalForm(solution) == CanonicalFrom(solution, Cardinality(DOMAIN solution), 0)

\* Parsed solution number k has the shape and the entries of solution k of the
\* printed list, and normalizes to its comparison form.
ParsedAs(parsed, solution, size) ==
    /\ Len(parsed) = size
    /\ \A r \in 1 .. size :
          /\ Len(parsed[r]) = 3
          /\ \A l \in 1 .. 3 : Len(parsed[r][l]) = size
          /\ \A c \in 1 .. size :
                LET card == solution[r - 1][c - 1]
                IN  /\ parsed[r][1][c] = << card[1][1], card[1][2] >>
                    /\ parsed[r][2][c] = << card[4][1], card[4][2], " ", " ",
                                            card[2][1], card[2][2] >>
                    /\ parsed[r][3][c] = << card[3][1], card[3][2] >>
    /\ normalize_solution(parsed) = CanonicalForm(solution)

RoundTrip ==
    LET found == returned[Len(returned)]
    IN  /\ Len(ret) = Len(found)
        /\ \A k \in 1 .. Len(found) : ParsedAs(ret[k], found[k], grid_size)

\* C11 as stated: for every grid size, parsing the printed text of K solutions
\* yields K parsed solutions in the same order, each with N rows of three lines
\* of N entries, normalizing to the comparison form of the original.
C11_Original == pc = "parsed" => RoundTrip

\* C11 as amended: for any list of K solutions of an N x N grid with N >= 1,
\* parsing with extract_solutions the text that main prints yields exactly K
\* parsed solutions in the same order, each with N grid rows of three lines with
\* N entries per line (North edge, West and East edges, South edge of the
\* corresponding cell), and normalize_solution of each equals the comparison
\* form of the original solution.
C11_PrintParseRoundTrip == (pc = "parsed" /\ grid_size >= 1) => RoundTrip

\* A list of 2 x 2 solutions, not all alike, has been printed and read back.
C11_Witness ==
    /\ pc = "parsed"
    /\ grid_size = 2
    /\ Len(ret) >= 2
    /\ Len(ret) = Len(returned[1])
    /\ \E k \in 2 .. Len(ret) :
          /\ ret[1] # ret[k]
          /\ normalize_solution(ret[k]) = CanonicalForm(returned[1][k])
          /\ normalize_solution(ret[k]) # CanonicalForm(returned[1][1])

(***************************************************************************)
(* The search seen through its call stack.  The callers of the running     *)
(* call are the calls below the top of the stack, each waiting at line 216 *)
(* with the card it placed.                                                *)
(***************************************************************************)
Callers == SubSeq(stack, 1, Len(stack) - 1)

\* The grid holding exactly what the callers placed.
GridOfCallers ==
    [row \in 0 .. grid_size - 1 |->
        [col \in 0 .. grid_size - 1 |->
            LET at_cell == { i \in 1 .. Len(stack) - 1 :
                                stack[i].card_index = row * grid_size + col }
            IN  IF at_cell = {} THEN None
                ELSE LET i == CHOOSE j \in at_cell : TRUE
                     IN  Oriented(cardset[stack[i].card_idx + 1], stack[i].rotation)]]

UsedOfCallers == { stack[i].card_idx : i \in 1 .. Len(stack) - 1 }

Running == pc = "search" /\ stack # <<>>

\* The running call is at its entry, between two candidates, or about to return.
Settled == Running /\ stack[Len(stack)].at \in {"entry", "loop"}

IsCall == Running /\ pc' = "search" /\ Len(stack') = Len(stack) + 1

IsReturn == Running /\ pc' = "search" /\ Len(stack') = Len(stack) - 1

\* C12: a call of backtrack returns with the live grid and the used set equal
\* to their values at its entry.  While a call runs its callers do not move, at
\* its entry the grid and the used set hold exactly what the callers placed,
\* and so they do whenever it is between candidates and when it returns; the
\* return itself changes neither.  Every candidate of a cell is therefore
\* validated against the same grid, and when solve_puzzle returns the grid is
\* all empty and the used set is empty.
C12_FrameRestored ==
    /\ [](Settled => (grid = GridOfCallers /\ used_cards = UsedOfCallers))
    /\ [](pc = "done" => (grid = EmptyGrid(grid_size) /\ used_cards = {}))
    /\ [][ /\ (Running /\ pc' = "search" /\ Len(stack') >= Len(stack))
                => SubSeq(stack', 1, Len(stack) - 1) = Callers
           /\ IsCall => (grid' = GridOfCallers' /\ used_cards' = UsedOfCallers'
                         /\ stack'[Len(stack')].at = "entry")
           /\ IsReturn => (grid' = grid /\ used_cards' = used_cards /\ Settled
                           /\ SubSeq(stack', 1, Len(stack') - 1)
                                = SubSeq(stack, 1, Len(stack') - 1)) ]_vars

\* A call two levels down has tried every card, placed and undone at least
\* one, and is about to return with the grid as its two callers left it.
C12_Witness ==
    /\ Settled
    /\ Len(stack) = 3
    /\ stack[3].at = "loop"
    /\ stack[3].card_idx >= Len(cardset)
    /\ Len(solutions) > 0
    /\ grid[0][0] # None
    /\ grid[0][1] # None
    /\ grid[1][0] = None
    /\ used_cards = {stack[1].card_idx, stack[2].card_idx}

(***************************************************************************)
(* The solver with the right-edge and bottom-edge checks removed: the same *)
(* steps, the validator keeping only its top and left checks.              *)
(***************************************************************************)
ValidTopLeft(g, row, col, card, size) ==
    /\ ~ ( /\ row > 0
           /\ g[row - 1][col] # None
           /\ ~ Matches(card[1], g[row - 1][col][3]) )
    /\ ~ ( /\ col > 0
           /\ g[row][col - 1] # None
           /\ ~ Matches(card[4], g[row][col - 1][2]) )

RejectPlacementVariant ==
    /\ Searching
    /\ Top.at = "loop"
    /\ Top.card_idx < Len(cardset)
    /\ Top.card_idx \notin used_cards
    /\ ~ ValidTopLeft(grid, RowOf(Top), ColOf(Top), Candidate(Top), grid_size)
    /\ stack' = SetTop(stack, NextCandidate(Top))
    /\ steps' = steps + 1
    /\ UNCHANGED <<pc, puzzle_type, output, cardset, grid_size, grid, used_cards,
                   solutions, choices, returned, caller, args, ret>>

PlaceCardVariant ==
    /\ Searching
    /\ Top.at = "loop"
    /\ Top.card_idx < Len(cardset)
    /\ Top.card_idx \notin used_cards
    /\ ValidTopLeft(grid, RowOf(Top), ColOf(Top), Candidate(Top), grid_size)
    /\ grid' = [grid EXCEPT ![RowOf(Top)][ColOf(Top)] = Candidate(Top)]
    /\ used_cards' = used_cards \cup {Top.card_idx}
    /\ stack' = Append(SetTop(stack, [Top EXCEPT !.at = "undo"]), Frame(Top.card_index + 1))
    /\ steps' = steps + 1
    /\ UNCHANGED <<pc, puzzle_type, output, cardset, grid_size, solutions, choices, returned,
                   caller, args, ret>>

VariantStep ==
    \/ SolveCall
    \/ Collect
    \/ EnterLoop
    \/ SkipUsed
    \/ RejectPlacementVariant
    \/ PlaceCardVariant
    \/ UndoPlacement
    \/ LoopExhausted
    \/ SolveReturn

\* The running call is about to call is_valid_placement (line 210).
Validating ==
    /\ Running
    /\ stack[Len(stack)].at = "loop"
    /\ stack[Len(stack)].card_idx < Len(cardset)
    /\ stack[Len(stack)].card_idx \notin used_cards

\* C13: at every call of is_valid_placement the East and the South neighbour
\* of the cell are empty, and the validator agrees with its top-and-left-only
\* variant; every step of the solver is a step of the variant solver, so the
\* two, being deterministic, collect the same sequence of solutions.
C13_RightBottomChecksIdle ==
    /\ [](Validating =>
            LET row == RowOf(Top)
                col == ColOf(Top)
            IN  /\ col < grid_size - 1 => grid[row][col + 1] = None
                /\ row < grid_size - 1 => grid[row + 1][col] = None
                /\ is_valid_placement(grid, row, col, Candidate(Top), grid_size)
                     <=> ValidTopLeft(grid, row, col, Candidate(Top), grid_size))
    /\ [][VariantStep]_vars

\* A candidate for the cell below a filled one and left of an empty one passes
\* the validator, which had a top edge to compare.
C13_Witness ==
    /\ Validating
    /\ grid_size = 2
    /\ Top.card_index = 2
    /\ grid[0][0] # None
    /\ grid[1][1] = None
    /\ is_valid_placement(grid, 1, 0, Candidate(Top), grid_size)
    /\ Top.rotation > 0

(***************************************************************************)
(* The order of collection.  A choice is <<tile index, orientation>>; a    *)
(* choice sequence lists the choices of cell 0, cell 1, ... of a solution. *)
(***************************************************************************)
ChoiceLess(a, b) == a[1] < b[1] \/ (a[1] = b[1] /\ a[2] < b[2])

LexLess(v, w) ==
    \E i \in 1 .. Len(v) :
        /\ i <= Len(w)
        /\ \A j \in 1 .. i - 1 : v[j] = w[j]
        /\ ChoiceLess(v[i], w[i])

\* Solution number i is the grid its choice sequence describes.
ChoicesDescribe(i) ==
    /\ Len(choices[i]) = total_positions
    /\ \A k \in 0 .. total_positions - 1 :
          solutions[i][k \div grid_size][k % grid_size]
            = Oriented(cardset[choices[i][k + 1][1] + 1], choices[i][k + 1][2])

\* C14: solutions are collected in strictly increasing lexicographic order of
\* their choice sequences: the newest solution's sequence is greater than that
\* of every earlier one at each moment of the search, and in the returned list
\* the sequence at position i is smaller than the one at position j for all
\* i < j.
C14_LexicographicOrder ==
    []( /\ Len(choices) = Len(solutions)
        /\ \A i \in 1 .. Len(choices) - 1 : LexLess(choices[i], choices[Len(choices)])
        /\ Len(choices) > 0 => ChoicesDescribe(Len(choices))
        /\ pc = "done" =>
              /\ returned[Len(returned)] = solutions
              /\ \A i \in 1 .. Len(choices) : ChoicesDescribe(i)
              /\ \A i \in 1 .. Len(choices) : \A j \in 1 .. Len(choices) :
                    i < j => LexLess(choices[i], choices[j]) )

\* A returned list of 2 x 2 solutions holds an earlier solution with the smaller
\* tile index but the larger orientation in cell 0, and two solutions that
\* agree on cell 0 and differ in cell 1.
C14_Witness ==
    /\ pc = "done"
    /\ grid_size = 2
    /\ \E i \in 1 .. Len(choices) : \E j \in 1 .. Len(choices) :
          /\ i < j
          /\ choices[i][1][1] < choices[j][1][1]
          /\ choices[i][1][2] > choices[j][1][2]
    /\ \E i \in 1 .. Len(choices) : \E j \in 1 .. Len(choices) :
          /\ i < j
          /\ choices[i][1] = choices[j][1]
          /\ choices[i][2] # choices[j][2]

IsPrefix(v, w) == Len(v) <= Len(w) /\ SubSeq(w, 1, Len(v)) = v

\* C15: during the search the collected sequence only grows at its end: every
\* step leaves the solutions collected so far as they were, adds at most one,
\* and adds one only when the running call is at its entry with the cell index
\* equal to N*N, the added solution being the grid of that moment.
C15_AppendOnly ==
    [][ pc = "search" =>
          /\ IsPrefix(solutions, solutions')
          /\ Len(solutions') <= Len(solutions) + 1
          /\ Len(solutions') = Len(solutions) + 1 =>
                /\ Running
                /\ stack[Len(stack)].at = "entry"
                /\ stack[Len(stack)].card_index = grid_size * grid_size
                /\ solutions'[Len(solutions')] = grid
                /\ grid' = grid ]_vars

\* After a solution was collected the search went on: the live grid now holds
\* in cell 0 another card than the first collected solution, which is still
\* fully filled.
C15_Witness ==
    /\ pc = "search"
    /\ grid_size = 2
    /\ Len(solutions) >= 2
    /\ grid[0][0] # None
    /\ grid[0][0] # solutions[1][0][0]
    /\ grid[1][1] = None
    /\ AllFilled(solutions[1], grid_size)

(***************************************************************************)
(* Termination.  The program is sequential and always takes its next step: *)
(* weak fairness on the step of the search.                                *)
(***************************************************************************)
SpecFair == Spec /\ WF_vars(Next)

\* C16: solve_puzzle eventually returns for every catalog and grid size, with
\* fewer, exactly or more than N*N tiles; meanwhile the cell index of every
\* active call is at most N*N, the recursion is at most N*N + 1 calls deep, no
\* error is raised, and the cap on the number of steps is never what stops it.
C16_Terminates ==
    /\ [](\A i \in 1 .. Len(stack) : stack[i].card_index <= grid_size * grid_size)
    /\ [](Len(stack) <= grid_size * grid_size + 1)
    /\ [](pc # "error")
    /\ [](steps < MaxSteps)
    /\ <>(pc = "done" /\ stack = <<>> /\ Len(returned) = 1)

\* A 2 x 2 search over three tiles has returned, empty-handed, after placing
\* and undoing cards.
C16_Witness ==
    /\ pc = "done"
    /\ grid_size = 2
    /\ Len(cardset) = 3
    /\ solutions = <<>>
    /\ steps > 20
    /\ returned = << <<>> >>

(***************************************************************************)
(* The state the search keeps at every entry of backtrack and at every     *)
(* call of is_valid_placement.                                             *)
(***************************************************************************)
Cell(g, k) == g[k \div grid_size][k % grid_size]

FilledPairsMatch(g) ==
    \A row \in 0 .. grid_size - 1 : \A col \in 0 .. grid_size - 1 :
        /\ (col + 1 < grid_size /\ g[row][col] # None /\ g[row][col + 1] # None)
              => Matches(g[row][col][2], g[row][col + 1][4])
        /\ (row + 1 < grid_size /\ g[row][col] # None /\ g[row + 1][col] # None)
              => Matches(g[row][col][3], g[row + 1][col][1])

PrefixFilled(k) ==
    /\ k <= grid_size * grid_size
    /\ \A c \in 0 .. grid_size * grid_size - 1 :
          IF c < k THEN Cell(grid, c) # None /\ Len(Cell(grid, c)) = 4
          ELSE Cell(grid, c) = None
    /\ Cardinality(used_cards) = k
    /\ Len(stack) = k + 1
    /\ \A i \in 1 .. k :
          /\ stack[i].card_index = i - 1
          /\ stack[i].card_idx \in 0 .. Len(cardset) - 1
          /\ Cell(grid, i - 1) = Oriented(cardset[stack[i].card_idx + 1], stack[i].rotation)
    /\ used_cards = { stack[i].card_idx : i \in 1 .. k }
    /\ FilledPairsMatch(grid)

AtEntry == Running /\ stack[Len(stack)].at = "entry"

\* C17: at every entry to backtrack(k, used) and at every call of
\* is_valid_placement made from it, exactly the cells with row-major index
\* below k are filled, the used set has exactly k elements and is the set of
\* catalog indices of the tiles in the filled cells, and every adjacent pair of
\* filled cells has matching touching edges.
C17_PrefixInvariant ==
    []((AtEntry \/ Validating) => PrefixFilled(stack[Len(stack)].card_index))

\* The validator is about to be called for the last cell of a 2 x 2 grid:
\* three cells filled from three different catalog positions.
C17_Witness ==
    /\ Validating
    /\ grid_size = 2
    /\ stack[Len(stack)].card_index = 3
    /\ Cardinality(used_cards) = 3
    /\ grid[1][0] # None
    /\ grid[1][1] = None
    /\ stack[Len(stack)].rotation = 2

\* C18: no step of solve_puzzle changes the catalog: it is the same value
\* before the search, after every step of it and after it; the card rotate_card
\* returns at line 207 for rotation 0 equals the catalog's card, and the catalog
\* card is the same after the call as before it for every rotation.
C18_CatalogUnchanged ==
    /\ [](Validating =>
            /\ Top.rotation = 0 => Candidate(Top) = cardset[Top.card_idx + 1]
            /\ Candidate(Top) = Oriented(cardset[Top.card_idx + 1], Top.rotation))
    /\ [][cardset' = cardset]_vars

\* The search has returned solutions holding turned tiles as well as tiles as
\* the catalog lists them (rotation 0).
C18_Witness ==
    /\ pc = "done"
    /\ grid_size = 2
    /\ Len(cardset) = 4
    /\ Len(solutions) > 0
    /\ \E k \in 0 .. 3 : Cell(solutions[1], k) \notin Range(cardset)
    /\ \E k \in 1 .. 4 : choices[1][k][2] = 0

====
